---- MODULE Spec2Model ----
(***************************************************************************)
(* Model of the SuperQuiz live server (server.js): the liveRooms registry, *)
(* the Socket.IO rooms the handlers join and broadcast to, and the six     *)
(* event handlers createLive, joinLive, nextQuestion, submitAnswer,        *)
(* endLive and disconnect.                                                 *)
(***************************************************************************)
EXTENDS Integers, Sequences, FiniteSets, TLC

VARIABLES
    liveRooms,      \* the Map code -> room, as the sequence of its values in insertion order
    connected,      \* the sockets whose connection is open
    ioRooms,        \* Socket.IO adapter: room name -> sockets that joined it
    pendingFetch,   \* createLive calls suspended on the Firestore get()
    emitted,        \* what the last handled event sent: sequence of [event, to, data]
    lastEvent,      \* the event handled last
    crashed,        \* a handler threw outside any try/catch: the process is gone
    nextCalls,      \* per code: nextQuestion calls of the host handled on the session created last
    handled         \* how many events and continuations have run

vars == <<liveRooms, connected, ioRooms, pendingFetch, emitted, lastEvent, crashed, nextCalls,
          handled>>

-----------------------------------------------------------------------------
(* Bounds of the model *)

\* events and continuations explored in one run of the server
MaxEvents == 6
\* submitAnswer is not explored once a score would pass this value
MaxScore == 3
\* createLive calls that may be suspended on the fetch at the same time
MaxPending == 2

\* the connections of the model
Sockets == {"s1", "s2", "s3"}
\* the answer indices a client submits
AnswerIndices == {0, 1}
\* the quiz ids a client asks for
QuizIds == {"quizA", "quizB", "nope"}
\* what Math.random().toString(36).substring(2, 8) yields in the model
RandomSuffixes == {<<"a">>, <<"b">>}

-----------------------------------------------------------------------------
(* Values *)

Undefined == [undefined |-> TRUE]
None == <<>>

\* arr[i] of a JavaScript array: undefined out of range
At(arr, i) == IF i \in 0..(Len(arr) - 1) THEN arr[i + 1] ELSE Undefined

\* String.prototype.toUpperCase, character by character
UpperChar(ch) ==
    CASE ch = "a" -> "A"
      [] ch = "b" -> "B"
      [] ch = "q" -> "Q"
      [] ch = "z" -> "Z"
      [] OTHER -> ch

ToUpperCase(str) == [i \in DOMAIN str |-> UpperChar(str[i])]

generateCode(rnd) == <<"Q", "Z", "-">> \o ToUpperCase(rnd)

GeneratedCodes == {generateCode(rnd) : rnd \in RandomSuffixes}

\* the code strings clients send: the generated codes and one typed in lower case
InputCodes == GeneratedCodes \cup {<<"q", "z", "-", "a">>}

\* socket.user, as the auth middleware sets it from the verified token
SocketUser(socket) ==
    CASE socket = "s1" -> [uid |-> "u1", name |-> "Ann", role |-> "teacher"]
      [] socket = "s2" -> [uid |-> "u2", name |-> "Bob", role |-> "student"]
      [] socket = "s3" -> [uid |-> "u3", name |-> "Cid", role |-> "teacher"]

Uids == {SocketUser(s).uid : s \in Sockets}

\* the quizzes collection of the content store
QuizDoc(quizId) ==
    CASE quizId = "quizA" ->
            [exists |-> TRUE,
             data |-> [ownerUid |-> "u1",
                       questions |-> << [text |-> "A1", correct |-> {0}],
                                        [text |-> "A2", correct |-> {0, 1}] >>]]
      [] quizId = "quizB" ->
            [exists |-> TRUE,
             data |-> [ownerUid |-> "u3",
                       questions |-> << [text |-> "B1", correct |-> {1}] >>]]
      [] OTHER -> [exists |-> FALSE, data |-> Undefined]

-----------------------------------------------------------------------------
(* The liveRooms Map *)

CodesOf(seq) == {seq[i].code : i \in DOMAIN seq}

\* map.get(code): the room, or Undefined
Lookup(seq, code) ==
    IF code \in CodesOf(seq)
    THEN seq[CHOOSE i \in DOMAIN seq : seq[i].code = code]
    ELSE Undefined

RoomCodes == CodesOf(liveRooms)

\* liveRooms.has(code)
Has(code) == code \in RoomCodes

\* liveRooms.get(code)
Get(code) == Lookup(liveRooms, code)

SelectSeqNot(seq, code) == SelectSeq(seq, LAMBDA r : r.code # code)

\* liveRooms.set(code, room): an existing key keeps its place, a new one goes last
MapSet(seq, code, room) ==
    IF \E i \in DOMAIN seq : seq[i].code = code
    THEN [i \in DOMAIN seq |-> IF seq[i].code = code THEN room ELSE seq[i]]
    ELSE Append(seq, room)

\* liveRooms.delete(code)
MapDelete(seq, code) == SelectSeqNot(seq, code)

-----------------------------------------------------------------------------
(* Socket.IO *)

\* the sockets of a room that a broadcast reaches: the connected ones
Members(rooms, conn, roomName) ==
    IF roomName \in DOMAIN rooms THEN rooms[roomName] \cap conn ELSE {}

\* socket.join(roomName)
Join(rooms, socket, roomName) ==
    [n \in DOMAIN rooms \cup {roomName} |->
        IF n = roomName
        THEN (IF n \in DOMAIN rooms THEN rooms[n] ELSE {}) \cup {socket}
        ELSE rooms[n]]

\* a disconnected socket has left every room
LeaveAll(rooms, socket) == [n \in DOMAIN rooms |-> rooms[n] \ {socket}]

\* socket.emit(event, data) and the callback reply: to that socket, if still connected
EmitTo(conn, socket, event, data) ==
    [event |-> event, to |-> {socket} \cap conn, data |-> data]

\* io.to(roomName).emit(event, data)
EmitRoom(rooms, conn, roomName, event, data) ==
    [event |-> event, to |-> Members(rooms, conn, roomName), data |-> data]

\* socket.to(roomName).emit(event, data): the room except the sender
EmitRoomExcept(rooms, conn, socket, roomName, event, data) ==
    [event |-> event, to |-> Members(rooms, conn, roomName) \ {socket}, data |-> data]

Event(type, socket, code) == [type |-> type, socket |-> socket, code |-> code]

-----------------------------------------------------------------------------
Init ==
    /\ liveRooms = <<>>
    /\ connected = Sockets
    /\ ioRooms = [n \in {} |-> {}]
    /\ pendingFetch = {}
    /\ emitted = <<>>
    /\ lastEvent = Event("none", "none", None)
    /\ crashed = FALSE
    /\ nextCalls = [c \in GeneratedCodes |-> [calls |-> 0, len |-> 0, clean |-> FALSE]]
    /\ handled = 0

\* the event loop runs one handler, or one continuation, at a time
Tick == handled < MaxEvents /\ handled' = handled + 1

-----------------------------------------------------------------------------
(* createLive *)

\* (variant: the role is looked at only after the fetch was started)
CreateLiveDenied_late(socket, quizId) ==
    /\ SocketUser(socket).role # "teacher"
    /\ pendingFetch' = pendingFetch \cup {[socket |-> socket, quizId |-> quizId]}
    /\ emitted' = <<>>
    /\ lastEvent' = Event("createLive", socket, None)
    /\ UNCHANGED <<liveRooms, connected, ioRooms, crashed, nextCalls>>

\* the role check, before anything else
CreateLiveDenied(socket, quizId) ==
    /\ SocketUser(socket).role # "teacher"
    /\ emitted' = << EmitTo(connected, socket, "callback",
                            [error |-> "Seuls les professeurs peuvent creer un live"]) >>
    /\ lastEvent' = Event("createLive", socket, None)
    /\ UNCHANGED <<liveRooms, connected, ioRooms, pendingFetch, crashed, nextCalls>>

\* the handler suspends on the content-store get()
CreateLiveAwait(socket, quizId) ==
    /\ SocketUser(socket).role = "teacher"
    /\ Cardinality(pendingFetch) < MaxPending
    /\ [socket |-> socket, quizId |-> quizId] \notin pendingFetch
    /\ pendingFetch' = pendingFetch \cup {[socket |-> socket, quizId |-> quizId]}
    /\ emitted' = <<>>
    /\ lastEvent' = Event("createLive", socket, None)
    /\ UNCHANGED <<liveRooms, connected, ioRooms, crashed, nextCalls>>

CreateLive(socket, quizId) ==
    /\ ~crashed
    /\ socket \in connected
    /\ Tick
    /\ \/ CreateLiveDenied(socket, quizId)
       \/ CreateLiveAwait(socket, quizId)

\* (variant: the first generated code is taken without asking the registry)
LoopExit_first(code) == TRUE

\* the do/while of the code allocation leaves with a code the registry does not hold
LoopExit(code) == ~Has(code)

\* the room object createLive builds
NewRoom(code, socket, quizId, quizData) ==
    [code |-> code,
     hostSocket |-> socket,
     quizId |-> quizId,
     quiz |-> quizData,
     currentIndex |-> 0,
     participants |-> [u \in {} |-> Undefined]]

\* the get() rejects: the catch block replies a generic error
CreateLiveFetchFails(p) ==
    /\ pendingFetch' = pendingFetch \ {p}
    /\ emitted' = << EmitTo(connected, p.socket, "callback", [error |-> "Erreur serveur"]) >>
    /\ lastEvent' = Event("createLiveFailed", p.socket, None)
    /\ UNCHANGED <<liveRooms, connected, ioRooms, crashed, nextCalls>>

CreateLiveNotFound(p) ==
    /\ ~QuizDoc(p.quizId).exists
    /\ pendingFetch' = pendingFetch \ {p}
    /\ emitted' = << EmitTo(connected, p.socket, "callback", [error |-> "Quiz introuvable"]) >>
    /\ lastEvent' = Event("createLiveNotFound", p.socket, None)
    /\ UNCHANGED <<liveRooms, connected, ioRooms, crashed, nextCalls>>

CreateLiveNotOwner(p) ==
    /\ QuizDoc(p.quizId).exists
    /\ QuizDoc(p.quizId).data.ownerUid # SocketUser(p.socket).uid
    /\ pendingFetch' = pendingFetch \ {p}
    /\ emitted' = << EmitTo(connected, p.socket, "callback",
                            [error |-> "Vous n'etes pas le proprietaire de ce quiz"]) >>
    /\ lastEvent' = Event("createLiveNotOwner", p.socket, None)
    /\ UNCHANGED <<liveRooms, connected, ioRooms, crashed, nextCalls>>

CreateLiveRegister(p, code) ==
    /\ QuizDoc(p.quizId).exists
    /\ QuizDoc(p.quizId).data.ownerUid = SocketUser(p.socket).uid
    /\ LoopExit(code)
    /\ pendingFetch' = pendingFetch \ {p}
    /\ liveRooms' = MapSet(liveRooms, code,
                           NewRoom(code, p.socket, p.quizId, QuizDoc(p.quizId).data))
    /\ ioRooms' = Join(ioRooms, p.socket, code)
    /\ emitted' = << EmitTo(connected, p.socket, "callback", [code |-> code]),
                     EmitTo(connected, p.socket, "liveCreated", [code |-> code]) >>
    /\ lastEvent' = Event("createLiveDone", p.socket, code)
    /\ nextCalls' = [nextCalls EXCEPT ![code] =
                        [calls |-> 0, len |-> Len(QuizDoc(p.quizId).data.questions),
                         clean |-> TRUE]]
    /\ UNCHANGED <<connected, crashed>>

\* the continuation of createLive after the await, whatever became of the caller
CreateLiveResume(p) ==
    /\ ~crashed
    /\ p \in pendingFetch
    /\ Tick
    /\ \/ CreateLiveFetchFails(p)
       \/ CreateLiveNotFound(p)
       \/ CreateLiveNotOwner(p)
       \/ \E rnd \in RandomSuffixes : CreateLiveRegister(p, generateCode(rnd))

-----------------------------------------------------------------------------
(* joinLive *)

\* liveRooms.get(code.toUpperCase())
JoinLookup(code) == Get(ToUpperCase(code))

NewParticipant(socket) ==
    [name |-> SocketUser(socket).name, score |-> 0, answers |-> [q \in {} |-> 0]]

\* participants.set(uid, participant)
SetParticipant(participants, uid, participant) ==
    [u \in DOMAIN participants \cup {uid} |->
        IF u = uid THEN participant ELSE participants[u]]

\* (variant: the caller is subscribed before the lookup)
JoinLiveInvalid_joined(socket, code) ==
    /\ JoinLookup(code) = Undefined
    /\ ioRooms' = Join(ioRooms, socket, code)
    /\ emitted' = << EmitTo(connected, socket, "callback",
                            [error |-> "Code invalide ou live termine"]) >>
    /\ lastEvent' = Event("joinLive", socket, code)
    /\ UNCHANGED <<liveRooms, connected, pendingFetch, crashed, nextCalls>>

JoinLiveInvalid(socket, code) ==
    /\ JoinLookup(code) = Undefined
    /\ emitted' = << EmitTo(connected, socket, "callback",
                            [error |-> "Code invalide ou live termine"]) >>
    /\ lastEvent' = Event("joinLive", socket, code)
    /\ UNCHANGED <<liveRooms, connected, ioRooms, pendingFetch, crashed, nextCalls>>

\* (variant: the catch-up carries the question to come)
CatchUp_next(socket, room) ==
    IF room.currentIndex > 0
    THEN << EmitTo(connected, socket, "newQuestion",
                   [question |-> At(room.quiz.questions, room.currentIndex),
                    index |-> room.currentIndex]) >>
    ELSE <<>>

\* the catch-up question of a session that already started
CatchUp(socket, room) ==
    IF room.currentIndex > 0
    THEN << EmitTo(connected, socket, "newQuestion",
                   [question |-> At(room.quiz.questions, room.currentIndex - 1),
                    index |-> room.currentIndex - 1]) >>
    ELSE <<>>

JoinLiveOk(socket, code) ==
    LET room == JoinLookup(code)
        rooms2 == Join(ioRooms, socket, code)
        participant == NewParticipant(socket)
        parts2 == SetParticipant(room.participants, SocketUser(socket).uid, participant)
        room2 == [room EXCEPT !.participants = parts2]
        note == [name |-> participant.name, count |-> Cardinality(DOMAIN parts2)]
    IN  /\ room # Undefined
        /\ ioRooms' = rooms2
        /\ liveRooms' = MapSet(liveRooms, room.code, room2)
        /\ emitted' = << EmitTo(connected, room.hostSocket, "studentJoined", note),
                         EmitRoomExcept(rooms2, connected, socket, code, "studentJoined", note),
                         EmitTo(connected, socket, "callback", [success |-> TRUE]) >>
                       \o CatchUp(socket, room2)
        /\ lastEvent' = Event("joinLive", socket, code)
        /\ UNCHANGED <<connected, pendingFetch, crashed, nextCalls>>

JoinLive(socket, code) ==
    /\ ~crashed
    /\ socket \in connected
    /\ Tick
    /\ \/ JoinLiveInvalid(socket, code)
       \/ JoinLiveOk(socket, code)

-----------------------------------------------------------------------------
(* nextQuestion *)

\* (variant: any teacher passes for the host)
IsHost_byRole(room, socket) == SocketUser(socket).role = "teacher"

\* room.hostSocket !== socket, negated
IsHost(room, socket) == room.hostSocket = socket

\* !room || room.hostSocket !== socket
NotHostOrNoRoom(socket, code) ==
    IF Get(code) = Undefined THEN TRUE ELSE ~IsHost(Get(code), socket)

\* (variant: > for >=)
QuizCompleted_offByOne(room) == room.currentIndex > Len(room.quiz.questions)

\* room.currentIndex >= room.quiz.questions.length
QuizCompleted(room) == room.currentIndex >= Len(room.quiz.questions)

NextQuestionIgnored(socket, code) ==
    /\ NotHostOrNoRoom(socket, code)
    /\ emitted' = <<>>
    /\ lastEvent' = Event("nextQuestion", socket, code)
    /\ UNCHANGED <<liveRooms, connected, ioRooms, pendingFetch, crashed, nextCalls>>

\* (variant: the finished session is announced but not deleted)
NextQuestionCompleted_keepsRoom(socket, code) ==
    /\ ~NotHostOrNoRoom(socket, code)
    /\ QuizCompleted(Get(code))
    /\ emitted' = << EmitRoom(ioRooms, connected, code, "liveEnded",
                              [reason |-> "quiz_completed"]) >>
    /\ lastEvent' = Event("nextQuestion", socket, code)
    /\ nextCalls' = [nextCalls EXCEPT ![code].calls = @ + 1]
    /\ UNCHANGED <<liveRooms, connected, ioRooms, pendingFetch, crashed>>

NextQuestionCompleted(socket, code) ==
    /\ ~NotHostOrNoRoom(socket, code)
    /\ QuizCompleted(Get(code))
    /\ emitted' = << EmitRoom(ioRooms, connected, code, "liveEnded",
                              [reason |-> "quiz_completed"]) >>
    /\ liveRooms' = MapDelete(liveRooms, code)
    /\ lastEvent' = Event("nextQuestion", socket, code)
    /\ nextCalls' = [nextCalls EXCEPT ![code].calls = @ + 1]
    /\ UNCHANGED <<connected, ioRooms, pendingFetch, crashed>>

\* (variant: the index is read after the increment)
NextQuestionSend_indexAfter(socket, code) ==
    LET room == Get(code)
        question == At(room.quiz.questions, room.currentIndex)
        room2 == [room EXCEPT !.currentIndex = @ + 1]
    IN  /\ ~NotHostOrNoRoom(socket, code)
        /\ ~QuizCompleted(room)
        /\ liveRooms' = MapSet(liveRooms, code, room2)
        /\ emitted' = << EmitRoom(ioRooms, connected, code, "newQuestion",
                                  [question |-> question,
                                   index |-> room2.currentIndex]) >>
        /\ lastEvent' = Event("nextQuestion", socket, code)
        /\ nextCalls' = [nextCalls EXCEPT ![code].calls = @ + 1]
        /\ UNCHANGED <<connected, ioRooms, pendingFetch, crashed>>

NextQuestionSend(socket, code) ==
    LET room == Get(code)
        question == At(room.quiz.questions, room.currentIndex)
        room2 == [room EXCEPT !.currentIndex = @ + 1]
    IN  /\ ~NotHostOrNoRoom(socket, code)
        /\ ~QuizCompleted(room)
        /\ liveRooms' = MapSet(liveRooms, code, room2)
        /\ emitted' = << EmitRoom(ioRooms, connected, code, "newQuestion",
                                  [question |-> question,
                                   index |-> room2.currentIndex - 1]) >>
        /\ lastEvent' = Event("nextQuestion", socket, code)
        /\ nextCalls' = [nextCalls EXCEPT ![code].calls = @ + 1]
        /\ UNCHANGED <<connected, ioRooms, pendingFetch, crashed>>

NextQuestion(socket, code) ==
    /\ ~crashed
    /\ socket \in connected
    /\ Tick
    /\ \/ NextQuestionIgnored(socket, code)
       \/ NextQuestionCompleted(socket, code)
       \/ NextQuestionSend(socket, code)

-----------------------------------------------------------------------------
(* submitAnswer *)

\* participant.answers[currentQuestionIndex] = answerIndex
SetAnswer(answers, q, answerIndex) ==
    [k \in DOMAIN answers \cup {q} |-> IF k = q THEN answerIndex ELSE answers[k]]

\* question.correct.includes(answerIndex)
IsCorrect(question, answerIndex) == answerIndex \in question.correct

\* (variant: the room gets the same payload as the host)
AnswerNotes_leak(room, socket, code, name, isCorrect) ==
    << EmitTo(connected, room.hostSocket, "answerReceived",
              [name |-> name, correct |-> isCorrect]),
       EmitRoomExcept(ioRooms, connected, socket, code, "answerReceived",
                      [name |-> name, correct |-> isCorrect]) >>

\* what an accepted answer sends: to the host with the correctness, to the room without
AnswerNotes(room, socket, code, name, isCorrect) ==
    << EmitTo(connected, room.hostSocket, "answerReceived",
              [name |-> name, correct |-> isCorrect]),
       EmitRoomExcept(ioRooms, connected, socket, code, "answerReceived", [name |-> name]) >>

\* no room under that code, or the caller never joined it
SubmitAnswerDropped(socket, code, answerIndex) ==
    /\ IF Get(code) = Undefined THEN TRUE
       ELSE SocketUser(socket).uid \notin DOMAIN Get(code).participants
    /\ emitted' = <<>>
    /\ lastEvent' = Event("submitAnswer", socket, code)
    /\ UNCHANGED <<liveRooms, connected, ioRooms, pendingFetch, crashed, nextCalls>>

\* no question was sent yet: questions[-1] is undefined, the answer is stored under -1
\* and reading question.correct throws out of the handler
SubmitAnswerThrows(socket, code, answerIndex) ==
    LET room == Get(code)
        uid == SocketUser(socket).uid
        q == room.currentIndex - 1
        participant == room.participants[uid]
        participant2 == [participant EXCEPT !.answers = SetAnswer(@, q, answerIndex)]
        room2 == [room EXCEPT !.participants[uid] = participant2]
    IN  /\ room # Undefined
        /\ uid \in DOMAIN room.participants
        /\ At(room.quiz.questions, q) = Undefined
        /\ liveRooms' = MapSet(liveRooms, code, room2)
        /\ crashed' = TRUE
        /\ emitted' = <<>>
        /\ lastEvent' = Event("submitAnswer", socket, code)
        /\ UNCHANGED <<connected, ioRooms, pendingFetch, nextCalls>>

SubmitAnswerAccepted(socket, code, answerIndex) ==
    LET room == Get(code)
        uid == SocketUser(socket).uid
        q == room.currentIndex - 1
        question == At(room.quiz.questions, q)
        participant == room.participants[uid]
        isCorrect == IsCorrect(question, answerIndex)
        participant2 == [participant EXCEPT
                            !.answers = SetAnswer(@, q, answerIndex),
                            !.score = IF isCorrect THEN @ + 1 ELSE @]
        room2 == [room EXCEPT !.participants[uid] = participant2]
    IN  /\ room # Undefined
        /\ uid \in DOMAIN room.participants
        /\ question # Undefined
        /\ isCorrect => participant.score < MaxScore
        /\ liveRooms' = MapSet(liveRooms, code, room2)
        /\ emitted' = AnswerNotes(room, socket, code, participant.name, isCorrect)
        /\ lastEvent' = Event("submitAnswer", socket, code)
        /\ UNCHANGED <<connected, ioRooms, pendingFetch, crashed, nextCalls>>

SubmitAnswer(socket, code, answerIndex) ==
    /\ ~crashed
    /\ socket \in connected
    /\ Tick
    /\ \/ SubmitAnswerDropped(socket, code, answerIndex)
       \/ SubmitAnswerThrows(socket, code, answerIndex)
       \/ SubmitAnswerAccepted(socket, code, answerIndex)

-----------------------------------------------------------------------------
(* endLive *)

EndLiveIgnored(socket, code) ==
    /\ NotHostOrNoRoom(socket, code)
    /\ emitted' = <<>>
    /\ lastEvent' = Event("endLive", socket, code)
    /\ UNCHANGED <<liveRooms, connected, ioRooms, pendingFetch, crashed, nextCalls>>

EndLiveEnded(socket, code) ==
    /\ ~NotHostOrNoRoom(socket, code)
    /\ emitted' = << EmitRoom(ioRooms, connected, code, "liveEnded",
                              [reason |-> "ended_by_teacher"]) >>
    /\ liveRooms' = MapDelete(liveRooms, code)
    /\ lastEvent' = Event("endLive", socket, code)
    /\ nextCalls' = [nextCalls EXCEPT ![code].clean = FALSE]
    /\ UNCHANGED <<connected, ioRooms, pendingFetch, crashed>>

EndLive(socket, code) ==
    /\ ~crashed
    /\ socket \in connected
    /\ Tick
    /\ \/ EndLiveIgnored(socket, code)
       \/ EndLiveEnded(socket, code)

-----------------------------------------------------------------------------
(* disconnect *)

\* (variant: the scan matches no room)
HostedFirst_none(socket) == {}

\* (variant: the scan ends the first room of the registry, whoever hosts it)
HostedFirst_any(socket) ==
    IF liveRooms = <<>> THEN {} ELSE {liveRooms[1].code}

\* the rooms the scan of liveRooms.entries() ends for a dropped socket: the first one
\* it hosts, in insertion order, then break
HostedFirst(socket) ==
    LET hosted == {i \in DOMAIN liveRooms : liveRooms[i].hostSocket = socket}
    IN  IF hosted = {} THEN {}
        ELSE {liveRooms[CHOOSE i \in hosted : \A j \in hosted : i <= j].code}

\* the socket is closed and out of every room when the handler runs
Disconnect(socket) ==
    LET conn2 == connected \ {socket}
        rooms2 == LeaveAll(ioRooms, socket)
        ended == HostedFirst(socket)
    IN  /\ ~crashed
        /\ socket \in connected
        /\ Tick
        /\ connected' = conn2
        /\ ioRooms' = rooms2
        /\ liveRooms' = SelectSeq(liveRooms, LAMBDA r : r.code \notin ended)
        /\ emitted' = IF ended = {} THEN <<>>
                      ELSE << EmitRoom(rooms2, conn2, CHOOSE c \in ended : TRUE, "liveEnded",
                                       [reason |-> "teacher_disconnected"]) >>
        /\ lastEvent' = Event("disconnect", socket, None)
        /\ nextCalls' = [c \in DOMAIN nextCalls |->
                            IF c \in ended THEN [nextCalls[c] EXCEPT !.clean = FALSE]
                            ELSE nextCalls[c]]
        /\ UNCHANGED <<pendingFetch, crashed>>

-----------------------------------------------------------------------------
Next ==
    \/ \E socket \in Sockets, quizId \in QuizIds : CreateLive(socket, quizId)
    \/ \E p \in pendingFetch : CreateLiveResume(p)
    \/ \E socket \in Sockets, code \in InputCodes : JoinLive(socket, code)
    \/ \E socket \in Sockets, code \in InputCodes : NextQuestion(socket, code)
    \/ \E socket \in Sockets, code \in InputCodes, answerIndex \in AnswerIndices :
            SubmitAnswer(socket, code, answerIndex)
    \/ \E socket \in Sockets, code \in InputCodes : EndLive(socket, code)
    \/ \E socket \in Sockets : Disconnect(socket)

Spec == Init /\ [][Next]_vars

-----------------------------------------------------------------------------
(* Properties *)

Rooms == {liveRooms[i] : i \in DOMAIN liveRooms}

\* the registry-side state a silently ignored event must leave alone
Untouched ==
    /\ liveRooms' = liveRooms
    /\ ioRooms' = ioRooms
    /\ connected' = connected
    /\ pendingFetch' = pendingFetch
    /\ crashed' = crashed

\* C1: every session of the registry has 0 <= currentIndex <= len(quiz.questions),
\* under every interleaving of the six events.
C1_IndexInRange ==
    \A room \in Rooms :
        /\ 0 <= room.currentIndex
        /\ room.currentIndex <= Len(room.quiz.questions)

\* a session whose last question was sent, the pointer at its upper end
C1_Witness ==
    /\ lastEvent.type = "nextQuestion"
    /\ \E room \in Rooms :
          /\ room.code = lastEvent.code
          /\ room.currentIndex = Len(room.quiz.questions)
          /\ room.participants # << >>

\* C2 as stated: once the host's nextQuestion was handled exactly len(questions) times
\* on a fresh session, with no endLive and no disconnect, the session is out of the
\* registry.
C2_EndedAfterLenCalls ==
    \A code \in GeneratedCodes :
        (nextCalls[code].clean /\ nextCalls[code].calls = nextCalls[code].len)
            => ~Has(code)

\* C2 amended: on a fresh session with no endLive and no disconnect, the session is
\* out of the registry exactly when the host's nextQuestion was handled
\* len(questions) + 1 times (after len(questions) calls it is still registered, with
\* currentIndex = len(questions)); a nextQuestion for a code the registry does not
\* hold changes nothing and emits nothing.
C2_EndedAfterLenPlusOneCalls ==
    [][ /\ \A code \in GeneratedCodes :
              nextCalls'[code].clean =>
                  /\ (nextCalls'[code].calls = nextCalls'[code].len + 1)
                        <=> (code \notin CodesOf(liveRooms'))
                  /\ nextCalls'[code].calls <= nextCalls'[code].len + 1
                  /\ code \in CodesOf(liveRooms') =>
                        Lookup(liveRooms', code).currentIndex = nextCalls'[code].calls
        /\ (lastEvent'.type = "nextQuestion" /\ ~Has(lastEvent'.code)) =>
              (Untouched /\ nextCalls' = nextCalls /\ emitted' = <<>>)
      ]_vars

\* the session ended by the call after the last question, then one more nextQuestion
C2_Witness ==
    /\ lastEvent.type = "nextQuestion"
    /\ lastEvent.code \in GeneratedCodes
    /\ ~Has(lastEvent.code)
    /\ nextCalls[lastEvent.code].clean
    /\ nextCalls[lastEvent.code].calls = nextCalls[lastEvent.code].len + 1
    /\ emitted = <<>>

\* C3: a participant's score is raised at most once per question index: it never
\* exceeds the number of question indices the participant has answered.
C3_ScoreOncePerQuestion ==
    \A room \in Rooms : \A uid \in DOMAIN room.participants :
        room.participants[uid].score
            <= Cardinality({q \in DOMAIN room.participants[uid].answers : q >= 0})

\* C4: nextQuestion or endLive for a live session from a connection that is not its
\* host changes nothing and emits nothing; a session advances only on its host's
\* nextQuestion and leaves the registry only on an event of its host.
C4_HostOnly ==
    [][ /\ ( /\ lastEvent'.type \in {"nextQuestion", "endLive"}
             /\ Has(lastEvent'.code)
             /\ Get(lastEvent'.code).hostSocket # lastEvent'.socket )
              => (Untouched /\ nextCalls' = nextCalls /\ emitted' = <<>>)
        /\ liveRooms' # liveRooms =>
              \A room \in Rooms :
                  LET after == Lookup(liveRooms', room.code)
                  IN  /\ (after # Undefined /\ after.currentIndex # room.currentIndex)
                            => ( /\ lastEvent'.type = "nextQuestion"
                                 /\ lastEvent'.socket = room.hostSocket )
                      /\ after = Undefined
                            => ( /\ lastEvent'.type \in {"nextQuestion", "endLive", "disconnect"}
                                 /\ lastEvent'.socket = room.hostSocket )
      ]_vars

\* a nextQuestion of a connected non-host for a started session with participants
C4_Witness ==
    /\ lastEvent.type \in {"nextQuestion", "endLive"}
    /\ Has(lastEvent.code)
    /\ Get(lastEvent.code).hostSocket # lastEvent.socket
    /\ Get(lastEvent.code).currentIndex > 0
    /\ SocketUser(lastEvent.socket).uid \in DOMAIN Get(lastEvent.code).participants

\* C5: the code of a session createLive registers is held by no session of the
\* registry at that moment, whatever the order in which suspended createLive calls
\* resume: the new session is added after the others, which stay as they were.
C5_FreshCode ==
    [][ lastEvent'.type = "createLiveDone" =>
          /\ ~Has(lastEvent'.code)
          /\ liveRooms' = Append(liveRooms, Lookup(liveRooms', lastEvent'.code))
      ]_vars

\* a createLive registered next to a live session while another one is still suspended
C5_Witness ==
    /\ lastEvent.type = "createLiveDone"
    /\ Len(liveRooms) = 2
    /\ pendingFetch # {}

\* the codes of the sessions a socket hosts
HostedCodes(socket) == {room.code : room \in {r \in Rooms : r.hostSocket = socket}}

\* C6: when the connection hosting one live session disconnects, liveEnded with reason
\* teacher_disconnected goes to the session's group and the session leaves the
\* registry; from then on joinLive, nextQuestion, submitAnswer and endLive addressed
\* to the code find no session (the code resolves again only once a later createLive
\* registers a new session under it).
C6_HostDisconnectEnds ==
    [][ /\ lastEvent'.type = "disconnect" =>
              \A code \in GeneratedCodes :
                  HostedCodes(lastEvent'.socket) = {code} =>
                      /\ emitted' = << [event |-> "liveEnded",
                                        to |-> Members(ioRooms, connected, code)
                                                   \ {lastEvent'.socket},
                                        data |-> [reason |-> "teacher_disconnected"]] >>
                      /\ code \notin CodesOf(liveRooms')
        /\ lastEvent'.type # "createLiveDone" =>
              \A code \in CodesOf(liveRooms') : Has(code)
        /\ ( /\ lastEvent'.type \in {"joinLive", "nextQuestion", "submitAnswer", "endLive"}
             /\ lastEvent'.code \in GeneratedCodes
             /\ ~Has(lastEvent'.code) ) =>
                  /\ Untouched
                  /\ emitted' = IF lastEvent'.type = "joinLive"
                                THEN << [event |-> "callback",
                                         to |-> {lastEvent'.socket},
                                         data |-> [error |-> "Code invalide ou live termine"]] >>
                                ELSE <<>>
      ]_vars

\* the host of a session dropped and a participant was told so
C6_Witness ==
    /\ lastEvent.type = "disconnect"
    /\ Len(emitted) = 1
    /\ emitted[1].event = "liveEnded"
    /\ emitted[1].data = [reason |-> "teacher_disconnected"]
    /\ emitted[1].to # {}
    /\ liveRooms = <<>>

\* C7: submitAnswer of a joined participant while currentIndex = 0 is dropped: the
\* session is as before, nothing is sent and nothing is thrown.
C7_LobbyAnswerDropped ==
    [][ ( /\ lastEvent'.type = "submitAnswer"
          /\ Has(lastEvent'.code)
          /\ Get(lastEvent'.code).currentIndex = 0
          /\ SocketUser(lastEvent'.socket).uid \in DOMAIN Get(lastEvent'.code).participants )
            => (Untouched /\ emitted' = <<>>)
      ]_vars

\* C8: joinLive with a code that resolves to no live session replies the invalid-code
\* error to the caller alone, creates no participant, subscribes the caller to no
\* room and notifies nobody else.
C8_UnknownCodeJoin ==
    [][ (lastEvent'.type = "joinLive" /\ ~Has(ToUpperCase(lastEvent'.code))) =>
          /\ Untouched
          /\ nextCalls' = nextCalls
          /\ emitted' = << [event |-> "callback",
                            to |-> {lastEvent'.socket},
                            data |-> [error |-> "Code invalide ou live termine"]] >>
      ]_vars

\* a joinLive for the code of a session that has ended, another session being live
C8_Witness ==
    /\ lastEvent.type = "joinLive"
    /\ lastEvent.code \in GeneratedCodes
    /\ ~Has(lastEvent.code)
    /\ nextCalls[lastEvent.code].len > 0
    /\ liveRooms # <<>>

\* the codes the callbacks of a handler replied
RepliedCodes(notes) ==
    {notes[i].data.code :
        i \in {j \in DOMAIN notes :
                  notes[j].event = "callback" /\ "code" \in DOMAIN notes[j].data}}

\* a handler's only output is one error reply to the caller
ErrorReplyTo(notes, socket) ==
    /\ Len(notes) = 1
    /\ notes[1].event = "callback"
    /\ DOMAIN notes[1].data = {"error"}
    /\ notes[1].to = {socket} \cap connected

\* C9: a createLive that ends in an error reply leaves the registry (and the rooms)
\* as they were; a session is added exactly when the callback is given a code, the
\* code of that session; a caller who is not a teacher is refused before the content
\* store is asked.
C9_CreateLiveErrors ==
    [][ /\ lastEvent'.type \in {"createLiveFailed", "createLiveNotFound", "createLiveNotOwner"}
              => ( /\ liveRooms' = liveRooms
                   /\ ioRooms' = ioRooms
                   /\ ErrorReplyTo(emitted', lastEvent'.socket) )
        /\ (lastEvent'.type = "createLive" /\ SocketUser(lastEvent'.socket).role # "teacher")
              => (Untouched /\ ErrorReplyTo(emitted', lastEvent'.socket))
        /\ (liveRooms' # liveRooms \/ emitted' # <<>>) =>
              /\ CodesOf(liveRooms') \ CodesOf(liveRooms) = RepliedCodes(emitted')
              /\ Len(liveRooms') > Len(liveRooms) => lastEvent'.type = "createLiveDone"
      ]_vars

\* an error reply of createLive after the fetch, a session being live
C9_Witness ==
    /\ lastEvent.type \in {"createLiveFailed", "createLiveNotFound", "createLiveNotOwner"}
    /\ Len(liveRooms) = 1
    /\ Len(emitted) = 1
    /\ emitted[1].to = {lastEvent.socket}

\* what a socket sees of a handler's output
View(notes, peer) ==
    LET seen == SelectSeq(notes, LAMBDA n : peer \in n.to)
    IN  [i \in DOMAIN seen |-> [event |-> seen[i].event, data |-> seen[i].data]]

\* C10: of an accepted submitAnswer only the host is sent the correctness; what every
\* other socket sees is what it would see had the other answer index been submitted.
C10_CorrectnessToHostOnly ==
    [][ /\ \A i \in DOMAIN emitted' :
              "correct" \in DOMAIN emitted'[i].data => lastEvent'.type = "submitAnswer"
        /\ (lastEvent'.type = "submitAnswer" /\ emitted' # <<>>) =>
              LET code == lastEvent'.code
                  socket == lastEvent'.socket
                  room == Get(code)
                  name == room.participants[SocketUser(socket).uid].name
                  question == At(room.quiz.questions, room.currentIndex - 1)
              IN  /\ \A i \in DOMAIN emitted' :
                        "correct" \in DOMAIN emitted'[i].data
                            => emitted'[i].to \subseteq {room.hostSocket}
                  /\ \E i \in DOMAIN emitted' :
                        /\ emitted'[i].event = "answerReceived"
                        /\ "correct" \in DOMAIN emitted'[i].data
                        /\ emitted'[i].to = {room.hostSocket} \cap connected
                  /\ \A peer \in Sockets \ {room.hostSocket} : \A other \in AnswerIndices :
                        View(emitted', peer)
                            = View(AnswerNotes(room, socket, code, name,
                                               IsCorrect(question, other)), peer)
      ]_vars

\* a correct answer of which a socket that is neither host nor sender was notified
C10_Witness ==
    /\ lastEvent.type = "submitAnswer"
    /\ Has(lastEvent.code)
    /\ Len(emitted) = 2
    /\ emitted[1].data.correct
    /\ emitted[2].to \ {Get(lastEvent.code).hostSocket} # {}

\* the sockets some note of a handler's output with that event name reaches
SentTo(notes, event) ==
    UNION {notes[i].to : i \in {j \in DOMAIN notes : notes[j].event = event}}

\* C11: the studentJoined of a successful joinLive never reaches the joining
\* connection itself, be it already a member of the group or the session's host; it
\* reaches the host and the other members of the session's group.
C11_JoinedNotToJoiner ==
    [][ (lastEvent'.type = "joinLive" /\ Has(ToUpperCase(lastEvent'.code))) =>
          LET room == Get(ToUpperCase(lastEvent'.code))
              socket == lastEvent'.socket
              group == ({room.hostSocket} \cap connected)
                           \cup Members(ioRooms', connected, room.code)
          IN  /\ socket \notin SentTo(emitted', "studentJoined")
              /\ SentTo(emitted', "studentJoined") = group \ {socket}
      ]_vars

\* C12: joinLive, nextQuestion, submitAnswer and endLive compare codes without regard
\* to letter case: sent with a code that differs from a live session's code in case
\* only, each of them acts on that session as it does with the canonical code (the
\* caller becomes a participant; the host's nextQuestion advances or completes the
\* session; a participant's answer to a sent question is notified; the host's endLive
\* removes the session).
C12_CaseInsensitive ==
    [][ ( /\ lastEvent'.type \in {"joinLive", "nextQuestion", "submitAnswer", "endLive"}
          /\ lastEvent'.code # ToUpperCase(lastEvent'.code)
          /\ Has(ToUpperCase(lastEvent'.code)) ) =>
          LET canon == ToUpperCase(lastEvent'.code)
              socket == lastEvent'.socket
              uid == SocketUser(socket).uid
              room == Get(canon)
              after == Lookup(liveRooms', canon)
          IN  /\ lastEvent'.type = "joinLive" =>
                    /\ after # Undefined
                    /\ uid \in DOMAIN after.participants
                    /\ socket \in SentTo(emitted', "callback")
              /\ (lastEvent'.type = "nextQuestion" /\ room.hostSocket = socket) =>
                    IF room.currentIndex >= Len(room.quiz.questions)
                    THEN after = Undefined
                    ELSE /\ after # Undefined
                         /\ after.currentIndex = room.currentIndex + 1
              /\ (lastEvent'.type = "endLive" /\ room.hostSocket = socket) =>
                    after = Undefined
              /\ ( /\ lastEvent'.type = "submitAnswer"
                   /\ uid \in DOMAIN room.participants
                   /\ room.currentIndex > 0 ) =>
                    /\ after # Undefined
                    /\ (room.currentIndex - 1) \in DOMAIN after.participants[uid].answers
                    /\ SentTo(emitted', "answerReceived") # {}
      ]_vars

\* the positions of a handler's output that carry that event name
NotesOf(notes, event) == {i \in DOMAIN notes : notes[i].event = event}

\* C13: a successful joinLive on a session with currentIndex > 0 sends the joining
\* connection alone, after the success reply, the question at position
\* currentIndex - 1 with index currentIndex - 1; on a session with currentIndex = 0 it
\* sends no question.
C13_CatchUp ==
    [][ (lastEvent'.type = "joinLive" /\ Has(ToUpperCase(lastEvent'.code))) =>
          LET room == Get(ToUpperCase(lastEvent'.code))
              socket == lastEvent'.socket
              questions == NotesOf(emitted', "newQuestion")
          IN  IF room.currentIndex > 0
              THEN /\ Cardinality(questions) = 1
                   /\ \A i \in questions :
                         /\ emitted'[i].to = {socket}
                         /\ emitted'[i].data =
                                [question |-> At(room.quiz.questions, room.currentIndex - 1),
                                 index |-> room.currentIndex - 1]
                         /\ \E j \in NotesOf(emitted', "callback") :
                               /\ j < i
                               /\ emitted'[j].to = {socket}
                               /\ emitted'[j].data = [success |-> TRUE]
              ELSE questions = {}
      ]_vars

\* a late joiner caught up on the second question, next to another participant
C13_Witness ==
    /\ lastEvent.type = "joinLive"
    /\ Has(ToUpperCase(lastEvent.code))
    /\ Get(ToUpperCase(lastEvent.code)).currentIndex = 2
    /\ NotesOf(emitted, "newQuestion") # {}
    /\ Cardinality(DOMAIN Get(ToUpperCase(lastEvent.code)).participants) = 2

\* C14: the newQuestion broadcasts of a session carry the indices 0, 1, 2, ... with
\* no gap and no repeat: the k-th broadcast since the session was created carries
\* index k - 1 and the question at position k - 1 of the quiz stored at creation, and
\* leaves currentIndex = k; the stored quiz does not change while the session lives.
C14_BroadcastIndices ==
    [][ /\ (lastEvent'.type = "nextQuestion" /\ NotesOf(emitted', "newQuestion") # {}) =>
              LET code == lastEvent'.code
                  k == nextCalls'[code].calls
                  after == Lookup(liveRooms', code)
              IN  /\ k = nextCalls[code].calls + 1
                  /\ after # Undefined
                  /\ after.currentIndex = k
                  /\ emitted' = << [event |-> "newQuestion",
                                    to |-> Members(ioRooms, connected, code),
                                    data |-> [question |->
                                                  At(QuizDoc(after.quizId).data.questions,
                                                     k - 1),
                                              index |-> k - 1]] >>
        /\ lastEvent'.type # "nextQuestion" =>
              \A i \in NotesOf(emitted', "newQuestion") :
                  emitted'[i].to \subseteq {lastEvent'.socket}
        /\ liveRooms' # liveRooms =>
              \A room \in {liveRooms'[i] : i \in DOMAIN liveRooms'} :
                  /\ room.currentIndex = nextCalls'[room.code].calls
                  /\ room.quiz = QuizDoc(room.quizId).data
      ]_vars

\* the second question of a session broadcast to its host and a participant
C14_Witness ==
    /\ lastEvent.type = "nextQuestion"
    /\ Len(emitted) = 1
    /\ emitted[1].event = "newQuestion"
    /\ emitted[1].data.index = 1
    /\ Cardinality(emitted[1].to) >= 2

\* the connected sockets joinLive has replied success to for that session
Joined(room, conn) == {s \in conn : SocketUser(s).uid \in DOMAIN room.participants}

\* C15: once joinLive has replied success to a connection, whatever the letter case
\* of the code it sent, every newQuestion the session broadcasts afterwards and the
\* liveEnded that ends it are delivered to that connection while it is connected.
C15_JoinedGetsBroadcasts ==
    [][ /\ (lastEvent'.type = "nextQuestion" /\ Has(lastEvent'.code)) =>
              \A i \in NotesOf(emitted', "newQuestion") :
                  Joined(Get(lastEvent'.code), connected') \subseteq emitted'[i].to
        /\ NotesOf(emitted', "liveEnded") # {} =>
              \A room \in {r \in Rooms : r.code \notin CodesOf(liveRooms')} :
                  \E i \in NotesOf(emitted', "liveEnded") :
                      Joined(room, connected') \subseteq emitted'[i].to
      ]_vars

\* C16: the host connection of every session of the registry is connected, also when
\* the caller of createLive dropped while the fetch of the quiz was pending.
C16_HostConnected ==
    \A room \in Rooms : room.hostSocket \in connected

\* C17: when a connection hosting several live sessions disconnects, each of them is
\* sent liveEnded with reason teacher_disconnected and leaves the registry: after the
\* disconnect no session of the registry has the dropped connection for host.
C17_AllHostedEnded ==
    [][ lastEvent'.type = "disconnect" =>
          LET socket == lastEvent'.socket
              ended == NotesOf(emitted', "liveEnded")
          IN  /\ \A code \in HostedCodes(socket) :
                    /\ code \notin CodesOf(liveRooms')
                    /\ \E i \in ended :
                          /\ emitted'[i].data = [reason |-> "teacher_disconnected"]
                          /\ emitted'[i].to = Members(ioRooms, connected, code) \ {socket}
              /\ Cardinality(ended) = Cardinality(HostedCodes(socket))
              /\ \A room \in {liveRooms'[i] : i \in DOMAIN liveRooms'} :
                    room.hostSocket # socket
      ]_vars

\* C18: the score of every participant of a live session is a non-negative integer
\* and does not decrease from one state of the session to the next, whatever joinLive,
\* nextQuestion and submitAnswer events occur, a repeated joinLive of the same
\* identity included.
C18_ScoreMonotone ==
    [][ liveRooms' # liveRooms =>
          \A room \in Rooms :
              LET after == Lookup(liveRooms', room.code)
              IN  after # Undefined =>
                      \A uid \in DOMAIN room.participants :
                          /\ uid \in DOMAIN after.participants
                          /\ after.participants[uid].score \in Nat
                          /\ after.participants[uid].score >= room.participants[uid].score
      ]_vars

\* the number of notes of a handler's output with that event name a socket receives
Copies(notes, event, peer) ==
    Cardinality({i \in NotesOf(notes, event) : peer \in notes[i].to})

\* C19: of a successful joinLive by a connection that is not the host, and of an
\* accepted submitAnswer, the session's host receives exactly one notification (one
\* studentJoined, respectively one answerReceived, which carries the correctness):
\* the broadcast to the group brings it no second copy.
C19_HostNotifiedOnce ==
    [][ /\ ( /\ lastEvent'.type = "joinLive"
             /\ Has(ToUpperCase(lastEvent'.code))
             /\ Get(ToUpperCase(lastEvent'.code)).hostSocket # lastEvent'.socket
             /\ Get(ToUpperCase(lastEvent'.code)).hostSocket \in connected ) =>
                Copies(emitted', "studentJoined",
                       Get(ToUpperCase(lastEvent'.code)).hostSocket) = 1
        /\ ( /\ lastEvent'.type = "submitAnswer"
             /\ emitted' # <<>>
             /\ Get(lastEvent'.code).hostSocket \in connected ) =>
                LET host == Get(lastEvent'.code).hostSocket
                IN  /\ Copies(emitted', "answerReceived", host) = 1
                    /\ \A i \in NotesOf(emitted', "answerReceived") :
                          host \in emitted'[i].to => "correct" \in DOMAIN emitted'[i].data
      ]_vars

\* C20: the disconnect of a connection leaves every session it does not host as it
\* was (in the registry, with the same currentIndex, participants, scores and
\* answers), and a liveEnded is sent only for a session the connection hosts.
C20_NonHostDisconnect ==
    [][ lastEvent'.type = "disconnect" =>
          LET socket == lastEvent'.socket
          IN  /\ \A room \in Rooms :
                    room.hostSocket # socket => Lookup(liveRooms', room.code) = room
              /\ \A i \in NotesOf(emitted', "liveEnded") :
                    \E code \in HostedCodes(socket) :
                        emitted'[i].to = Members(ioRooms, connected, code) \ {socket}
              /\ HostedCodes(socket) = {} => emitted' = <<>>
      ]_vars

\* a participant with a score dropped out of a started session, which lives on
C20_Witness ==
    /\ lastEvent.type = "disconnect"
    /\ emitted = <<>>
    /\ \E room \in Rooms :
          /\ room.hostSocket # lastEvent.socket
          /\ room.currentIndex > 0
          /\ SocketUser(lastEvent.socket).uid \in DOMAIN room.participants
          /\ room.participants[SocketUser(lastEvent.socket).uid].score > 0

====
